---- MODULE Spec2Model ----
(***************************************************************************)
(* Model of sanctions_app.py: the two PDF extractors (parse_un_style_pdf,  *)
(* parse_kdn_pdf), the record store built by main() and the screening      *)
(* step of main().                                                         *)
(*                                                                         *)
(* A Python str is modelled as a sequence of one-character strings, so     *)
(* that the regular expressions and the str methods of the source are      *)
(* computed character by character.                                        *)
(***************************************************************************)
EXTENDS Integers, Sequences, FiniteSets, TLC

\* ------------------------------------------------------------------------
\* Characters and str methods
\* ------------------------------------------------------------------------

UpperSeq == <<"A","B","C","D","E","F","G","H","I","J","K","L","M","N","O","P","Q","R","S","T","U","V","W","X","Y","Z">>

LowerSeq == <<"a","b","c","d","e","f","g","h","i","j","k","l","m","n","o","p","q","r","s","t","u","v","w","x","y","z">>

Upper == {UpperSeq[i] : i \in 1..26}

LowerCase == {LowerSeq[i] : i \in 1..26}

Digits == {"0", "1", "2", "3", "4", "5", "6", "7", "8", "9"}

\* the characters the regex class \s and str.strip() treat as white space
Whitespace == {" ", "\n", "\t", "\r"}

\* an optional str: None, or a str
None == [isNone |-> TRUE, str |-> <<>>]

Str(s) == [isNone |-> FALSE, str |-> s]

\* Python truthiness of an optional str
Truthy(v) == ~v.isNone /\ v.str # <<>>

Max(a, b) == IF a >= b THEN a ELSE b

Min(a, b) == IF a <= b THEN a ELSE b

\* s[i:] starts with pat (i is 1-based)
StartsAt(s, pat, i) ==
    /\ i >= 1
    /\ i + Len(pat) - 1 <= Len(s)
    /\ \A k \in 1..Len(pat) : s[i + k - 1] = pat[k]

\* pat in s
Contains(s, pat) == \E i \in 1..(Len(s) + 1) : StartsAt(s, pat, i)

RECURSIVE ReplaceFrom(_, _, _, _)
ReplaceFrom(s, old, new, i) ==
    IF i > Len(s) THEN <<>>
    ELSE IF StartsAt(s, old, i) THEN new \o ReplaceFrom(s, old, new, i + Len(old))
    ELSE <<s[i]>> \o ReplaceFrom(s, old, new, i + 1)

\* s.replace(old, new), old not empty
Replace(s, old, new) == ReplaceFrom(s, old, new, 1)

\* s.strip(chars)
StripChars(s, chars) ==
    LET keep == {i \in 1..Len(s) : s[i] \notin chars}
    IN  IF keep = {} THEN <<>>
        ELSE LET lo == CHOOSE i \in keep : \A j \in keep : i <= j
                 hi == CHOOSE i \in keep : \A j \in keep : i >= j
             IN  SubSeq(s, lo, hi)

\* s.strip()
Strip(s) == StripChars(s, Whitespace)

LowerChar(c) == IF c \in Upper THEN LowerSeq[CHOOSE i \in 1..26 : UpperSeq[i] = c] ELSE c

\* s.lower()
Lower(s) == [i \in 1..Len(s) |-> LowerChar(s[i])]

RECURSIVE JoinFrom(_, _, _)
JoinFrom(parts, sep, i) ==
    IF i > Len(parts) THEN <<>>
    ELSE IF i = Len(parts) THEN parts[i]
    ELSE parts[i] \o sep \o JoinFrom(parts, sep, i + 1)

\* sep.join(parts)
Join(parts, sep) == JoinFrom(parts, sep, 1)

\* the length of the run of characters of class cls that starts at s[i]
RECURSIVE RunLen(_, _, _)
RunLen(s, cls, i) ==
    IF i >= 1 /\ i <= Len(s) /\ s[i] \in cls THEN 1 + RunLen(s, cls, i + 1) ELSE 0

\* ------------------------------------------------------------------------
\* pandas: a DataFrame is its columns, its index labels and its rows
\* ------------------------------------------------------------------------

Columns == {"Source", "Reference_No", "Name", "Aliases", "DOB", "Designation",
            "Nationality", "Raw_Data"}

\* pd.DataFrame(data) for a list of dicts: no dict, no column
DataFrame(data) ==
    [columns |-> IF data = <<>> THEN {} ELSE Columns,
     index   |-> [i \in 1..Len(data) |-> i - 1],
     rows    |-> data]

RECURSIVE ConcatRows(_, _)
ConcatRows(frames, i) ==
    IF i > Len(frames) THEN <<>> ELSE frames[i].rows \o ConcatRows(frames, i + 1)

\* pd.concat(frames, ignore_index=True)
Concat(frames) ==
    LET rows == ConcatRows(frames, 1)
    IN  [columns |-> UNION {frames[i].columns : i \in 1..Len(frames)},
         index   |-> [i \in 1..Len(rows) |-> i - 1],
         rows    |-> rows]

\* ------------------------------------------------------------------------
\* A PDF as pdfplumber shows it: whether it opens, and its pages; a page
\* either fails on extraction or gives its text (a str or None) and its
\* tables (lists of rows, a row a list of cells, a cell a str or None)
\* ------------------------------------------------------------------------

Page(text, tables) == [fails |-> FALSE, text |-> text, tables |-> tables]

BadPage == [fails |-> TRUE, text |-> None, tables |-> <<>>]

Pdf(pages) == [opens |-> TRUE, pages |-> pages]

Unreadable == [opens |-> FALSE, pages |-> <<>>]

\* ------------------------------------------------------------------------
\* parse_kdn_pdf
\* ------------------------------------------------------------------------

KDN == <<"K","D","N">>

RECURSIVE EscapeFrom(_, _, _)
EscapeFrom(s, q, i) ==
    IF i > Len(s) THEN <<>>
    ELSE (CASE s[i] = "\\" -> <<"\\","\\">>
            [] s[i] = "\n" -> <<"\\","n">>
            [] s[i] = "\t" -> <<"\\","t">>
            [] s[i] = "\r" -> <<"\\", "r">>
            [] s[i] = q    -> <<"\\", q>>
            [] OTHER       -> <<s[i]>>) \o EscapeFrom(s, q, i + 1)

\* repr(cell)
ReprCell(cell) ==
    IF cell.isNone THEN <<"N","o","n","e">>
    ELSE LET q == IF Contains(cell.str, <<"'">>) /\ ~Contains(cell.str, <<"\"">>) THEN "\"" ELSE "'"
         IN  <<q>> \o EscapeFrom(cell.str, q, 1) \o <<q>>

\* str(row), row a list of cells
StrRow(row) ==
    <<"[">> \o Join([i \in 1..Len(row) |-> ReprCell(row[i])], <<","," ">>) \o <<"]">>

\* for cell in row: if cell and "KDN" in str(cell): ref = cell; break
KdnRef(row) ==
    LET hits == {i \in 1..Len(row) : Truthy(row[i]) /\ Contains(row[i].str, KDN)}
    IN  IF hits = {} THEN Str(<<"U","n","k","n","o","w","n">>)
        ELSE row[CHOOSE i \in hits : \A j \in hits : i <= j]

\* KdnName with an empty default, which the cleaning turns into "N/A"
KdnNameNA(row) == IF Len(row) > 2 THEN row[3] ELSE Str(<<>>)

\* if len(row) > 2: name = row[2]
KdnName(row) == IF Len(row) > 2 THEN row[3] ELSE Str(<<"U","n","k","n","o","w","n">>)

KdnAlias(row) == IF Len(row) > 7 THEN row[8] ELSE Str(<<>>)

KdnDob(row) == IF Len(row) > 5 THEN row[6] ELSE Str(<<>>)

KdnIdNum(row) == IF Len(row) > 10 THEN row[11] ELSE Str(<<>>)

\* str(v).replace('\n', sep) if v else dflt
KdnClean(v, sep, dflt) == IF Truthy(v) THEN Replace(v.str, <<"\n">>, sep) ELSE dflt

\* the dict appended for a row that holds the marker
KdnRecord(row) ==
    [Source       |-> <<"M","O","H","A"," ","D","o","m","e","s","t","i","c"," ","L","i","s","t"," ","(","M","a","l","a","y","s","i","a",")">>,
     Reference_No |-> KdnClean(KdnRef(row), <<" ","|"," ">>, <<"N","/","A">>),
     Name         |-> KdnClean(KdnName(row), <<" ">>, <<"N","/","A">>),
     Aliases      |-> KdnClean(KdnAlias(row), <<" ">>, <<>>),
     DOB          |-> KdnClean(KdnDob(row), <<" ","|"," ">>, <<>>),
     Designation  |-> <<"S","p","e","c","i","f","i","e","d"," ","E","n","t","i","t","y"," ","(","D","o","m","e","s","t","i","c",")">>,
     Nationality  |-> <<"M","a","l","a","y","s","i","a","/","O","t","h","e","r">>,
     Raw_Data     |-> <<"I","D",":"," ">> \o KdnClean(KdnIdNum(row), <<" ","|"," ">>, <<>>)]

\* if "KDN" in row_str
KdnIsEntry(row) == Contains(StrRow(row), KDN)

\* one iteration of "for row in table": the row, and the dicts it appends
KdnStep(row) ==
    [row |-> row, out |-> IF KdnIsEntry(row) THEN <<KdnRecord(row)>> ELSE <<>>]

RECURSIVE KdnTables(_, _)
KdnTables(tables, i) ==
    IF i > Len(tables) THEN <<>>
    ELSE [k \in 1..Len(tables[i]) |-> KdnStep(tables[i][k])] \o KdnTables(tables, i + 1)

\* the loop over pdf.pages inside the try: an exception on a page leaves the
\* loop, and what the iterations before it appended stays in data
RECURSIVE KdnPages(_, _, _)
KdnPages(pages, i, steps) ==
    IF i > Len(pages) THEN steps
    ELSE IF pages[i].fails THEN steps
    ELSE KdnPages(pages, i + 1, steps \o KdnTables(pages[i].tables, 1))

\* the iterations parse_kdn_pdf runs before it returns
KdnTrace(pdf) == IF ~pdf.opens THEN <<>> ELSE KdnPages(pdf.pages, 1, <<>>)

\* data after the iterations of a trace
RECURSIVE Appended(_, _)
Appended(steps, i) ==
    IF i > Len(steps) THEN <<>> ELSE steps[i].out \o Appended(steps, i + 1)

\* data when parse_kdn_pdf reaches its return
KdnData(pdf) == Appended(KdnTrace(pdf), 1)

parse_kdn_pdf(pdf) == DataFrame(KdnData(pdf))

\* ------------------------------------------------------------------------
\* parse_un_style_pdf
\* ------------------------------------------------------------------------

\* full_text after the loop over pdf.pages: if page_text: full_text += page_text + "\n"
RECURSIVE FullText(_, _)
FullText(pages, i) ==
    IF i > Len(pages) THEN <<>>
    ELSE (IF Truthy(pages[i].text) THEN pages[i].text.str \o <<"\n">> ELSE <<>>)
         \o FullText(pages, i + 1)

\* [A-Z]{2}[i|e]\.\d+ matches at s[q]; the class [i|e] holds the bar too
RefAt(s, q) ==
    /\ q >= 1
    /\ q + 4 <= Len(s)
    /\ s[q] \in Upper
    /\ s[q + 1] \in Upper
    /\ s[q + 2] \in {"i", "|", "e"}
    /\ s[q + 3] = "."
    /\ s[q + 4] \in Digits

\* the lookahead (?=\s+[A-Z]{2}[i|e]\.\d+) holds before s[p + 1], p in 0..Len(s)
SplitAt(s, p) ==
    /\ p < Len(s)
    /\ s[p + 1] \in Whitespace
    /\ RefAt(s, p + 1 + RunLen(s, Whitespace, p + 1))

\* the pieces of s from offset `from` on, cut at every offset in cuts
RECURSIVE Pieces(_, _, _)
Pieces(s, cuts, from) ==
    LET later == {p \in cuts : p > from}
    IN  IF later = {} THEN <<SubSeq(s, from + 1, Len(s))>>
        ELSE LET p == CHOOSE c \in later : \A d \in later : c <= d
             IN  <<SubSeq(s, from + 1, p)>> \o Pieces(s, cuts, p)

\* re.split(r'(?=\s+[A-Z]{2}[i|e]\.\d+)', full_text): an empty match splits
\* wherever it occurs, at offset 0 too (the first piece is then empty)
SplitEntries(s) ==
    LET cuts == {p \in 0..Len(s) : SplitAt(s, p)}
    IN  IF 0 \in cuts THEN <<<<>>>> \o Pieces(s, cuts, 0) ELSE Pieces(s, cuts, 0)

\* re.search(r'([A-Z]{2}[i|e]\.\d+)', entry): None, or group(1)
RefMatch(entry) ==
    LET hits == {q \in 1..Len(entry) : RefAt(entry, q)}
    IN  IF hits = {} THEN None
        ELSE LET q == CHOOSE h \in hits : \A j \in hits : h <= j
             IN  Str(SubSeq(entry, q, q + 3 + RunLen(entry, Digits, q + 4)))

\* a terminator label starts at s[t]
TermAt(s, terms, t) == \E k \in 1..Len(terms) : StartsAt(s, terms[k], t)

\* the offsets e at which \s+(?:terms) matches right after s[e]
FieldEnds(s, terms) ==
    {e \in 0..(Len(s) - 1) :
        \E n \in 1..RunLen(s, Whitespace, e + 1) : TermAt(s, terms, e + 1 + n)}

\* re.search of label\s*(.+?)\s+(?:terms): None, or group(1). A match from
\* s[i] has \s* take w characters and the group end at s[e]; without DOTALL
\* the dot matches no newline. The leftmost start wins; there the greedy \s*
\* keeps as much as a match allows and the lazy group ends as early as it can
LabelledField(s, label, terms, dotall) ==
    LET ends == FieldEnds(s, terms)
        gaps(i) == 0..RunLen(s, Whitespace, i + Len(label))
        ok(i, w, e) == e >= i + Len(label) + w
                       /\ (dotall \/ \A k \in (i + Len(label) + w)..e : s[k] # "\n")
        starts == {i \in 1..Len(s) :
                      StartsAt(s, label, i) /\ \E w \in gaps(i), e \in ends : ok(i, w, e)}
    IN  IF starts = {} THEN None
        ELSE LET i  == CHOOSE a \in starts : \A b \in starts : a <= b
                 ws == {w \in gaps(i) : \E e \in ends : ok(i, w, e)}
                 w  == CHOOSE a \in ws : \A b \in ws : a >= b
                 es == {e \in ends : ok(i, w, e)}
                 e  == CHOOSE a \in es : \A b \in es : a <= b
             IN  Str(SubSeq(s, i + Len(label) + w, e))

NameTerms == <<<<"N","a","m","e"," ","(","o","r","i","g","i","n","a","l">>, <<"T","i","t","l","e",":">>, <<"D","e","s","i","g","n","a","t","i","o","n",":">>, <<"D","O","B",":">>>>

\* re.search(r'Name:\s*(.+?)\s+(?:Name \(original|Title:|Designation:|DOB:)', entry, re.DOTALL)
NameMatch(entry) == LabelledField(entry, <<"N","a","m","e",":">>, NameTerms, TRUE)

\* re.sub(r'\d+:', '', s): a run of digits is removed when a colon ends it
RECURSIVE SubOrdinals(_, _)
SubOrdinals(s, i) ==
    IF i > Len(s) THEN <<>>
    ELSE LET d == RunLen(s, Digits, i)
         IN  IF d > 0 /\ i + d <= Len(s) /\ s[i + d] = ":"
             THEN SubOrdinals(s, i + d + 1)
             ELSE <<s[i]>> \o SubOrdinals(s, i + 1)

\* re.sub(r'\s+', ' ', s)
RECURSIVE CollapseSpaces(_, _)
CollapseSpaces(s, i) ==
    IF i > Len(s) THEN <<>>
    ELSE LET r == RunLen(s, Whitespace, i)
         IN  IF r > 0 THEN <<" ">> \o CollapseSpaces(s, i + r)
             ELSE <<s[i]>> \o CollapseSpaces(s, i + 1)

\* the name cleaned out of group(1) of the name match
CleanName(raw_name) ==
    LET noOrdinals == SubOrdinals(raw_name, 1)
        clean_name == Strip(Replace(Replace(noOrdinals, <<"n","a">>, <<>>), <<"\n">>, <<" ">>))
    IN  CollapseSpaces(clean_name, 1)

\* step 3 of the loop body: the name of an entry
UnName(entry) ==
    LET name_match == NameMatch(entry)
    IN  IF name_match.isNone THEN <<"U","n","k","n","o","w","n"," ","N","a","m","e">> ELSE CleanName(name_match.str)

AliasLabels == <<<<"G","o","o","d"," ","q","u","a","l","i","t","y"," ","a",".","k",".","a",".",":">>, <<"L","o","w"," ","q","u","a","l","i","t","y"," ","a",".","k",".","a",".",":">>>>

AliasTerms == <<<<"N","a","t","i","o","n","a","l","i","t","y",":">>, <<"P","a","s","s","p","o","r","t"," ","n","o",":">>, <<"N","a","t","i","o","n","a","l"," ","i","d","e","n","t","i","f","i","c","a","t","i","o","n">>, <<"A","d","d","r","e","s","s",":">>>>

\* re.search(r'(Good quality a\.k\.a\.:|Low quality a\.k\.a\.:)(.+?)(Nationality:|...)',
\* entry, re.DOTALL): None, or group(2)
AliasSection(entry) ==
    LET n == Len(entry)
        lab(i) == IF StartsAt(entry, AliasLabels[1], i) THEN Len(AliasLabels[1])
                  ELSE IF StartsAt(entry, AliasLabels[2], i) THEN Len(AliasLabels[2])
                  ELSE 0
        ends(i) == {t \in (i + lab(i) + 1)..n : TermAt(entry, AliasTerms, t)}
        starts == {i \in 1..n : lab(i) > 0 /\ ends(i) # {}}
    IN  IF starts = {} THEN None
        ELSE LET i == CHOOSE a \in starts : \A b \in starts : a <= b
                 t == CHOOSE a \in ends(i) : \A b \in ends(i) : a <= b
             IN  Str(SubSeq(entry, i + lab(i), t - 1))

\* re.split(r'[a-z]\)', s) from s[i] on, piece being the piece collected so far
RECURSIVE SplitEnum(_, _, _)
SplitEnum(s, i, piece) ==
    IF i > Len(s) THEN <<piece>>
    ELSE IF s[i] \in LowerCase /\ i < Len(s) /\ s[i + 1] = ")"
    THEN <<piece>> \o SplitEnum(s, i + 2, <<>>)
    ELSE SplitEnum(s, i + 1, Append(piece, s[i]))

\* [a.strip(' ;').strip() for a in cleaned if len(a) > 2 and a.lower() != 'na']
RECURSIVE KeepAliases(_, _)
KeepAliases(cleaned, i) ==
    IF i > Len(cleaned) THEN <<>>
    ELSE LET a == cleaned[i]
         IN  (IF Len(a) > 2 /\ Lower(a) # <<"n","a">>
              THEN <<Strip(StripChars(a, {" ", ";"}))>> ELSE <<>>)
             \o KeepAliases(cleaned, i + 1)

\* the aliases list built from group(2) of the alias match
AliasesOf(block) ==
    LET raw_aliases == Replace(block, <<"\n">>, <<" ">>)
        cleaned == SplitEnum(raw_aliases, 1, <<>>)
    IN  KeepAliases(cleaned, 1)

\* step 4 of the loop body: the aliases of an entry
UnAliases(entry) ==
    LET alias_section == AliasSection(entry)
    IN  IF alias_section.isNone THEN <<>> ELSE AliasesOf(alias_section.str)

DobTerms == <<<<"P","O","B",":">>, <<"G","o","o","d"," ","q","u","a","l","i","t","y">>>>

\* step 5 of the loop body: re.search(r'DOB:\s*(.+?)\s+(?:POB:|Good quality)', entry)
UnDob(entry) ==
    LET dob_match == LabelledField(entry, <<"D","O","B",":">>, DobTerms, FALSE)
    IN  IF dob_match.isNone THEN <<"N","A">> ELSE Strip(dob_match.str)

RawDataLen == 300

\* the dict appended for an entry whose reference number is ref_no
UnRecord(entry, ref_no, list_name) ==
    [Source       |-> list_name,
     Reference_No |-> ref_no,
     Name         |-> UnName(entry),
     Aliases      |-> Join(UnAliases(entry), <<" ","|"," ">>),
     DOB          |-> UnDob(entry),
     Designation  |-> <<"U","N"," ","S","a","n","c","t","i","o","n","e","d">>,
     Nationality  |-> <<"I","n","t","e","r","n","a","t","i","o","n","a","l">>,
     Raw_Data     |-> SubSeq(entry, 1, Min(RawDataLen, Len(entry)))]

\* the loop body appends a dict for an entry that is not blank and holds a
\* reference number
EntryKept(entry) == Strip(entry) # <<>> /\ ~RefMatch(entry).isNone

\* one iteration of "for entry in entries": the entry, the locals of the
\* iteration and the dicts it appends
UnStep(entry, list_name) ==
    [entry         |-> entry,
     name_match    |-> NameMatch(entry),
     alias_section |-> AliasSection(entry),
     aliases       |-> UnAliases(entry),
     out           |-> IF EntryKept(entry)
                       THEN <<UnRecord(entry, RefMatch(entry).str, list_name)>>
                       ELSE <<>>]

\* parse_un_style_pdf raises inside its try: on opening, or on a page's
\* extract_text; the regex steps after the with block raise on no str
UnRaises(pdf) == ~pdf.opens \/ \E i \in 1..Len(pdf.pages) : pdf.pages[i].fails

\* the iterations parse_un_style_pdf runs before it returns: the text of all
\* pages is read before the loop over the entries starts
UnTrace(pdf, list_name) ==
    IF UnRaises(pdf) THEN <<>>
    ELSE LET entries == SplitEntries(FullText(pdf.pages, 1))
         IN  [k \in 1..Len(entries) |-> UnStep(entries[k], list_name)]

\* data when parse_un_style_pdf reaches its return
UnData(pdf, list_name) == Appended(UnTrace(pdf, list_name), 1)

parse_un_style_pdf(pdf, list_name) == DataFrame(UnData(pdf, list_name))

\* ------------------------------------------------------------------------
\* main(): the record store
\* ------------------------------------------------------------------------

Rec(source, ref, name, aliases, dob, designation, nationality, raw) ==
    [Source |-> source, Reference_No |-> ref, Name |-> name, Aliases |-> aliases,
     DOB |-> dob, Designation |-> designation, Nationality |-> nationality,
     Raw_Data |-> raw]

get_sample_data ==
    DataFrame(<<
       Rec(<<"M","O","H","A"," ","D","o","m","e","s","t","i","c"," ","L","i","s","t"," ","(","M","a","l","a","y","s","i","a",")">>, <<"K","D","N",".","1",".","0","8","-","2","0","1","4">>, <<"H","a","l","i","m","a","h"," ","b","i","n","t","i"," ","H","u","s","s","e","i","n">>, <<>>,
           <<"9",".","1","2",".","1","9","6","1">>, <<"I","n","d","i","v","i","d","u","a","l">>, <<"M","a","l","a","y","s","i","a">>, <<"I","D",":"," ","6","1","1","2","0","9","-","0","1","-","5","5","1","4">>),
       Rec(<<"M","O","H","A"," ","D","o","m","e","s","t","i","c"," ","L","i","s","t"," ","(","M","a","l","a","y","s","i","a",")">>, <<"K","D","N",".","1",".","0","4","-","2","0","1","6">>, <<"N","o","r"," ","M","a","h","m","u","d","a","h"," ","b","i","n","t","i"," ","A","h","m","a","d">>, <<"C","i","k"," ","M","u","d">>,
           <<"1",".","1",".","1","9","8","9">>, <<"I","n","d","i","v","i","d","u","a","l">>, <<"M","a","l","a","y","s","i","a">>, <<"I","D",":"," ","8","9","0","1","0","1","-","2","6","-","5","0","0","6">>),
       Rec(<<"U","N","S","C","R"," ","1","2","6","7","/","1","9","8","9","/","2","2","5","3"," ","(","I","S","I","L","/","A","l","-","Q","a","i","d","a",")">>, <<"Q","D","i",".","0","0","6">>, <<"A","I","M","A","N"," ","M","U","H","A","M","M","E","D"," ","R","A","B","I"," ","A","L","-","Z","A","W","A","H","I","R","I">>, <<"A","y","m","a","n"," ","A","l","-","Z","a","w","a","h","a","r","i">>,
           <<"1","9"," ","J","u","n","."," ","1","9","5","1">>, <<"L","e","a","d","e","r"," ","o","f"," ","A","l","-","Q","a","i","d","a">>, <<"E","g","y","p","t">>, <<"R","e","p","o","r","t","e","d","l","y"," ","d","e","c","e","a","s","e","d">>),
       Rec(<<"U","N","S","C","R"," ","1","9","8","8"," ","(","T","a","l","i","b","a","n",")">>, <<"T","A","i",".","1","4","4">>, <<"S","I","R","A","J","U","D","D","I","N"," ","J","A","L","L","A","L","O","U","D","I","N","E"," ","H","A","Q","Q","A","N","I">>, <<"S","i","r","a","j"," ","H","a","q","q","a","n","i"," ","|"," ","K","h","a","l","i","f","a">>,
           <<"1","9","7","7","-","1","9","7","8">>, <<"D","e","p","u","t","y"," ","C","o","m","m","a","n","d","e","r">>, <<"A","f","g","h","a","n","i","s","t","a","n">>, <<"H","a","q","q","a","n","i"," ","N","e","t","w","o","r","k">>),
       Rec(<<"U","N","S","C","R"," ","1","9","8","8"," ","(","T","a","l","i","b","a","n",")">>, <<"T","A","i",".","1","7","3">>, <<"A","B","D","U","L"," ","B","A","S","I","R"," ","N","O","O","R","Z","A","I">>, <<"H","a","j","i"," ","A","b","d","u","l"," ","B","a","s","i","r"," ","|"," ","H","a","j","i"," ","B","a","s","i","r"," ","N","o","o","r","z","a","i">>,
           <<"1","9","6","5">>, <<"H","a","j","i">>, <<"A","f","g","h","a","n","i","s","t","a","n">>, <<"O","w","n","e","r"," ","o","f"," ","H","a","j","i"," ","B","a","s","i","r"," ","a","n","d"," ","Z","a","r","j","m","i","l"," ","C","o","m","p","a","n","y">>),
       Rec(<<"U","N","S","C","R"," ","1","7","1","8"," ","(","D","P","R","K",")">>, <<"K","P","i",".","0","3","3">>, <<"R","I"," ","W","O","N"," ","H","O">>, <<>>,
           <<"1","7"," ","J","u","l","."," ","1","9","6","4">>, <<"O","f","f","i","c","i","a","l">>, <<"D","P","R","K">>, <<"M","i","n","i","s","t","r","y"," ","o","f"," ","S","t","a","t","e"," ","S","e","c","u","r","i","t","y">>),
       Rec(<<"U","N","S","C","R"," ","2","2","3","1"," ","(","I","r","a","n",")">>, <<"I","R","i",".","0","3","9">>, <<"Q","A","S","E","M"," ","S","O","L","E","I","M","A","N","I">>, <<"Q","a","s","i","m"," ","S","o","l","e","i","m","a","n","i">>,
           <<"1","1"," ","M","a","r","."," ","1","9","5","7">>, <<"M","a","j","o","r"," ","G","e","n","e","r","a","l">>, <<"I","r","a","n">>, <<"C","o","m","m","a","n","d","e","r"," ","o","f"," ","Q","o","d","s"," ","F","o","r","c","e">>)>>)

\* the file uploaders of the sidebar, by widget key, in the order main() reads them
Slots == <<"moha", "1267", "1988", "1718", "2231">>

SlotSet == {Slots[i] : i \in 1..Len(Slots)}

\* the list_name main() passes for an uploader
ListName(slot) ==
    CASE slot = "1267" -> <<"U","N","S","C","R"," ","1","2","6","7"," ","(","I","S","I","L","/","A","l","-","Q","a","i","d","a",")">>
      [] slot = "1988" -> <<"U","N","S","C","R"," ","1","9","8","8"," ","(","T","a","l","i","b","a","n",")">>
      [] slot = "1718" -> <<"U","N","S","C","R"," ","1","7","1","8"," ","(","D","P","R","K",")">>
      [] slot = "2231" -> <<"U","N","S","C","R"," ","2","2","3","1"," ","(","I","r","a","n",")">>
      [] OTHER         -> <<>>

\* an uploader holds no file, or a file
NoFile == [present |-> FALSE, pdf |-> Unreadable]

File(pdf) == [present |-> TRUE, pdf |-> pdf]

\* the frame main() appends for an uploaded file
ParseSlot(slot, pdf) ==
    IF slot = "moha" THEN parse_kdn_pdf(pdf) ELSE parse_un_style_pdf(pdf, ListName(slot))

KdnList ==
    Pdf(<<Page(None, << <<
        <<Str(<<"N","o">>), Str(<<"R","e","f">>), Str(<<"N","a","m","e">>)>>,
        <<Str(<<"1">>), Str(<<"K","D","N",".","1">>), Str(<<"A","B">>), None, None, Str(<<"1","9","6","1">>)>>,
        <<Str(<<"2">>), Str(<<"K","D","N",".","2">>), Str(<<"C","D">>)>> >> >>)>>)

UnList ==
    Pdf(<<Page(Str(<<"L","i","s","t","\n"," ","Q","D","i",".","1"," ","N","a","m","e",":"," ","1",":"," ","A","B"," ","2",":"," ","n","a"," ","T","i","t","l","e",":"," ","x">>), <<>>),
          Page(Str(<<"T","A","i",".","2"," ","N","a","m","e",":"," ","E","F"," ","D","O","B",":"," ","1","9","6","5"," ","P","O","B",":"," ","G","o","o","d"," ","q","u","a","l","i","t","y"," ","a",".","k",".","a",".",":"," ","a",")"," ","G","h"," ","b",")"," ","I","j"," ","A","d","d","r","e","s","s",":">>),
               <<>>)>>)

\* a scanned document: its one page has no text layer
BlankPdf == Pdf(<<Page(None, <<>>)>>)

\* the files a user may put into an uploader: a document that does not open
\* or the domestic list; the same narrative list under two resolutions; a
\* document that yields no record
Uploads(slot) ==
    CASE slot = "moha" -> {Unreadable, KdnList}
      [] slot = "1267" -> {UnList}
      [] slot = "1988" -> {UnList}
      [] slot = "1718" -> {BlankPdf}
      [] slot = "2231" -> {}

\* @st.cache_data: a file is parsed when it is first seen, and every later
\* run is handed the frame parsed then
cache_data == [slot \in SlotSet |-> [pdf \in Uploads(slot) |-> ParseSlot(slot, pdf)]]

\* data_frames: one frame per uploaded file, the empty ones too
RECURSIVE DataFrames(_, _)
DataFrames(f, i) ==
    IF i > Len(Slots) THEN <<>>
    ELSE (IF f[Slots[i]].present THEN <<cache_data[Slots[i]][f[Slots[i]].pdf]>> ELSE <<>>)
         \o DataFrames(f, i + 1)

\* df_master: if data_frames: pd.concat(...) else: get_sample_data()
LoadMaster(f) ==
    LET data_frames == DataFrames(f, 1)
    IN  IF data_frames # <<>> THEN Concat(data_frames) ELSE get_sample_data

\* ------------------------------------------------------------------------
\* main(): the screening step
\* ------------------------------------------------------------------------

\* df_master['Name'].astype(str) + " " + df_master['Aliases'].astype(str)
SearchVector(row) == row.Name \o <<" ">> \o row.Aliases

WithSearchVector(r) ==
    [Source |-> r.Source, Reference_No |-> r.Reference_No, Name |-> r.Name,
     Aliases |-> r.Aliases, DOB |-> r.DOB, Designation |-> r.Designation,
     Nationality |-> r.Nationality, Raw_Data |-> r.Raw_Data,
     Search_Vector |-> SearchVector(r)]

DropSearchVector(r) ==
    [Source |-> r.Source, Reference_No |-> r.Reference_No, Name |-> r.Name,
     Aliases |-> r.Aliases, DOB |-> r.DOB, Designation |-> r.Designation,
     Nationality |-> r.Nationality, Raw_Data |-> r.Raw_Data]

\* df_master['Search_Vector'] = ...: the column is added to df_master itself
AddSearchVector(df) ==
    [columns |-> df.columns \cup {"Search_Vector"},
     index   |-> df.index,
     rows    |-> [i \in 1..Len(df.rows) |-> WithSearchVector(df.rows[i])]]

\* df_master['Search_Vector'].tolist()
Choices(df) == [i \in 1..Len(df.rows) |-> df.rows[i].Search_Vector]

\* InsertMatch putting the pair in front of the pairs of equal score
RECURSIVE InsertMatchBefore(_, _, _)
InsertMatchBefore(sorted, m, i) ==
    IF i > Len(sorted) THEN Append(sorted, m)
    ELSE IF sorted[i][2] > m[2] THEN InsertMatchBefore(sorted, m, i + 1)
    ELSE SubSeq(sorted, 1, i - 1) \o <<m>> \o SubSeq(sorted, i, Len(sorted))

\* the scored pair <<choice, score>> is put behind every pair scoring at least
\* as much: equal scores keep the order of the choices
RECURSIVE InsertMatch(_, _, _)
InsertMatch(sorted, m, i) ==
    IF i > Len(sorted) THEN Append(sorted, m)
    ELSE IF sorted[i][2] >= m[2] THEN InsertMatch(sorted, m, i + 1)
    ELSE SubSeq(sorted, 1, i - 1) \o <<m>> \o SubSeq(sorted, i, Len(sorted))

RECURSIVE SortMatches(_, _, _, _)
SortMatches(choices, score, i, sorted) ==
    IF i > Len(choices) THEN sorted
    ELSE SortMatches(choices, score, i + 1,
                     InsertMatch(sorted, <<choices[i], score[choices[i]]>>, 1))

\* process.extract(query, choices, limit=limit, scorer=fuzz.token_set_ratio):
\* every choice is scored against the query (score: choice -> 0..100 stands
\* for the scorer with the query fixed) and the limit best pairs
\* (choice, score) are returned, best first
extract(choices, score, limit) ==
    LET sorted == SortMatches(choices, score, 1, <<>>)
    IN  SubSeq(sorted, 1, Min(limit, Len(sorted)))

Limit == 10

Threshold == 80

\* HighRisk with the comparison made strict (m[1] > threshold)
RECURSIVE HighRiskStrict(_, _)
HighRiskStrict(ms, i) ==
    IF i > Len(ms) THEN <<>>
    ELSE (IF ms[i][2] > Threshold THEN <<ms[i]>> ELSE <<>>) \o HighRiskStrict(ms, i + 1)

\* [m for m in matches if m[1] >= threshold]
RECURSIVE HighRisk(_, _)
HighRisk(ms, i) ==
    IF i > Len(ms) THEN <<>>
    ELSE (IF ms[i][2] >= Threshold THEN <<ms[i]>> ELSE <<>>) \o HighRisk(ms, i + 1)

\* FirstIndex taking the last record that carries the key (.index[-1])
LastIndex(df, key) ==
    LET hits == {i \in 1..Len(df.rows) : df.rows[i].Search_Vector = key}
    IN  df.index[CHOOSE i \in hits : \A j \in hits : i >= j]

\* df_master[df_master['Search_Vector'] == key].index[0]
FirstIndex(df, key) ==
    LET hits == {i \in 1..Len(df.rows) : df.rows[i].Search_Vector = key}
    IN  df.index[CHOOSE i \in hits : \A j \in hits : i <= j]

\* [df_master[df_master['Search_Vector'] == m[0]].index[0] for m in high_risk_matches]
MatchedIndices(df, hrm) == [k \in 1..Len(hrm) |-> FirstIndex(df, hrm[k][1])]

\* the row of df that carries the index label
RowAt(df, label) == df.rows[CHOOSE i \in 1..Len(df.index) : df.index[i] = label]

\* df_master.loc[matched_indices].drop(columns=['Search_Vector'])
LocDrop(df, labels) ==
    [columns |-> df.columns \ {"Search_Vector"},
     index   |-> labels,
     rows    |-> [k \in 1..Len(labels) |-> DropSearchVector(RowAt(df, labels[k]))]]

\* st.session_state['search_results'] = None
NoResults == [none |-> TRUE]

\* ------------------------------------------------------------------------
\* main(): one run of the script
\* ------------------------------------------------------------------------

VARIABLES
    files,          \* uploader key -> the file it holds
    search_query,   \* the value of the text input
    session_state,  \* st.session_state
    df_master,      \* df_master at the end of the last run
    matches,        \* matches of the last run, <<>> if it did not screen
    view,           \* what the last run did and rendered
    document,       \* an extractor call: the document it is given
    parser,         \* an extractor call: "un" or "kdn", the extractor called
    trace,          \* an extractor call: the loop iterations it ran
    frame,          \* an extractor call: the frame it returned
    choice_list,    \* an extract call: the choices
    scorer,         \* an extract call: the score of each choice for the query
    ranked,         \* an extract call: the pairs it returned
    pc              \* "run" between runs of main(); "call", then "return", for a call

appVars == <<files, search_query, session_state, df_master, matches, view>>

parseVars == <<document, parser, trace, frame>>

rankVars == <<choice_list, scorer, ranked>>

vars == <<files, search_query, session_state, df_master, matches, view,
          document, parser, trace, frame, choice_list, scorer, ranked, pc>>

\* if search_btn: if search_query: the run screens
Screens(btn, q) == btn /\ q # <<>>

\* df_master['Name'] or df_master['Aliases'] raises KeyError
KeyError(df) == ~({"Name", "Aliases"} \subseteq df.columns)

\* StoreAfter with the column added before the query is looked at
StoreAfterEager(df, btn, q) ==
    IF btn /\ ~KeyError(df) THEN AddSearchVector(df) ELSE df

\* df_master when the run ends
StoreAfter(df, btn, q) ==
    IF Screens(btn, q) /\ ~KeyError(df) THEN AddSearchVector(df) ELSE df

\* the search keys the scorer is applied to
KeySet(df) == {SearchVector(df.rows[i]) : i \in 1..Len(df.rows)}

\* st.session_state after the search logic of a run that raises nothing; df1
\* is df_master with its search keys and ms the matches, if the run screens
SearchLogic(ss, df1, ms, btn, q) ==
    IF ~btn THEN ss
    ELSE IF q = <<>> THEN [ss EXCEPT !.search_performed = FALSE]
    ELSE LET high_risk_matches == HighRisk(ms, 1)
         IN  [search_performed  |-> TRUE,
              high_risk_matches |-> high_risk_matches,
              search_results    |->
                  IF high_risk_matches # <<>>
                  THEN LocDrop(df1, MatchedIndices(df1, high_risk_matches))
                  ELSE NoResults]

\* the result display logic: the panel rendered
Panel(ss) ==
    IF ~ss.search_performed THEN "none"
    ELSE IF ss.high_risk_matches # <<>> THEN "red" ELSE "safe"

\* one run of main() with the uploads f, the text input q and the button
\* value btn; score stands for the scorer with the query fixed
Main(f, q, btn, score) ==
    \E df \in {LoadMaster(f)} :
    \E df1 \in {StoreAfter(df, btn, q)} :
    \E ms \in {IF Screens(btn, q) /\ ~KeyError(df)
                THEN extract(Choices(df1), score, Limit) ELSE <<>>} :
    \E ss \in {SearchLogic(session_state, df1, ms, btn, q)} :
        /\ UNCHANGED <<parseVars, rankVars, pc>>
        /\ IF Screens(btn, q) /\ KeyError(df)
           THEN \* the exception ends the run: nothing below line 310 is executed
                /\ session_state' = session_state
                /\ df_master' = df
                /\ matches' = <<>>
                /\ view' = [clicked |-> btn, screened |-> FALSE, fault |-> TRUE,
                            warning |-> FALSE, panel |-> "none", term |-> <<>>]
           ELSE /\ session_state' = ss
                /\ df_master' = df1
                /\ matches' = ms
                /\ view' = [clicked |-> btn, screened |-> Screens(btn, q), fault |-> FALSE,
                            warning |-> btn /\ q = <<>>,
                            panel |-> Panel(ss),
                            term |-> IF Panel(ss) = "safe" THEN q ELSE <<>>]

\* ---- the inputs of the model ----

\* the scores the scorer gives: just below the threshold, and on it
ScoreSet == {79, 80}

Queries == {<<>>, <<"A">>, <<"B">>}

\* ---- the actions: every user action reruns the script ----

Upload(slot, file) ==
    /\ files[slot] # File(file)
    /\ files' = [files EXCEPT ![slot] = File(file)]
    /\ search_query' = search_query
    /\ Main(files', search_query, FALSE, <<>>)

Clear(slot) ==
    /\ files[slot].present
    /\ files' = [files EXCEPT ![slot] = NoFile]
    /\ search_query' = search_query
    /\ Main(files', search_query, FALSE, <<>>)

EditQuery(q) ==
    /\ q # search_query
    /\ search_query' = q
    /\ files' = files
    /\ Main(files, q, FALSE, <<>>)

ClickScreen ==
    /\ UNCHANGED <<files, search_query>>
    /\ IF search_query = <<>> THEN Main(files, search_query, TRUE, <<>>)
       ELSE \E score \in [KeySet(LoadMaster(files)) -> ScoreSet] :
                Main(files, search_query, TRUE, score)

\* the "Log Internal Compliance Report" button of the red panel
ClickLog ==
    /\ view.panel = "red"
    /\ UNCHANGED <<files, search_query>>
    /\ Main(files, search_query, FALSE, <<>>)

\* st.session_state as the first run of main() leaves it
FirstSession ==
    [search_results |-> NoResults, search_performed |-> FALSE, high_risk_matches |-> <<>>]

\* what a run renders when nothing was clicked and nothing was screened before
FirstView ==
    [clicked |-> FALSE, screened |-> FALSE, fault |-> FALSE, warning |-> FALSE,
     panel |-> "none", term |-> <<>>]

\* the page after its first run: no upload, the text input empty
Init ==
    /\ files = [slot \in SlotSet |-> NoFile]
    /\ search_query = <<>>
    /\ session_state = FirstSession
    /\ df_master = get_sample_data
    /\ matches = <<>>
    /\ view = FirstView
    /\ document = Unreadable
    /\ parser = "none"
    /\ trace = <<>>
    /\ frame = DataFrame(<<>>)
    /\ choice_list = <<>>
    /\ scorer = <<>>
    /\ ranked = <<>>
    /\ pc = "run"

Next ==
    \/ \E slot \in SlotSet : \E file \in Uploads(slot) : Upload(slot, file)
    \/ \E slot \in SlotSet : Clear(slot)
    \/ \E q \in Queries : EditQuery(q)
    \/ ClickScreen
    \/ ClickLog

\* the script as the user drives it
Spec == Init /\ [][Next]_vars

\* ------------------------------------------------------------------------
\* The extractors, called on one document
\* ------------------------------------------------------------------------

\* all texts made of at most n of the parts
RECURSIVE Texts(_, _)
Texts(parts, n) ==
    IF n = 0 THEN {<<>>}
    ELSE LET shorter == Texts(parts, n - 1)
         IN  shorter \cup {t \o part : t \in shorter, part \in parts}

MaxNameParts == 3

NameParts == {<<" ">>, <<"\n">>, <<"1",":">>, <<"2",":">>, <<"n","a">>, <<"A","B">>}

NameTails == {<<" ","T","i","t","l","e",":">>, <<"\n","D","O","B",":">>, <<" ","x">>}

\* one entry each: what follows "Name:" varies
NameTexts ==
    {<<" ","Q","D","i",".","1"," ","N","a","m","e",":">> \o body \o tail : body \in Texts(NameParts, MaxNameParts),
                                       tail \in NameTails}
    \cup {<<" ","Q","D","i",".","1"," ","T","i","t","l","e",":"," ","x">>}

MaxAliasParts == 3

AliasParts == {<<" ">>, <<"a",")">>, <<"b",")">>, <<"n","a">>, <<"N","A">>, <<";">>, <<"A","b">>}

\* one entry each: the alias block varies
AliasTexts ==
    {<<"K","P","e",".","2","2"," ","N","a","m","e",":"," ","A","B"," ","T","i","t","l","e",":"," ","G","o","o","d"," ","q","u","a","l","i","t","y"," ","a",".","k",".","a",".",":">> \o block \o <<"N","a","t","i","o","n","a","l","i","t","y",":">> :
        block \in Texts(AliasParts, MaxAliasParts)}
    \cup {<<" ","I","R","i",".","3"," ","L","o","w"," ","q","u","a","l","i","t","y"," ","a",".","k",".","a",".",":"," ","a",")"," ","A","b"," ","b",")"," ","C","d","\n","e",")"," ","n","a"," ","A","d","d","r","e","s","s",":"," ","x">>}

EntryA == <<"P","a","g","e"," ","1","\n"," ","Q","D","i",".","1"," ","N","a","m","e",":"," ","1",":"," ","A","B"," ","2",":"," ","n","a"," ","T","i","t","l","e",":"," ","x">>

EntryB == <<"T","A","i",".","2"," ","N","a","m","e",":"," ","E","F","\n","G","H"," ","D","O","B",":"," ","1","9","6","5"," ","P","O","B",":"," ","y">>

\* documents for parse_un_style_pdf
UnPdfs ==
    {Pdf(<<Page(Str(t), <<>>)>>) : t \in NameTexts \cup AliasTexts}
    \cup {Unreadable, Pdf(<<>>), Pdf(<<BadPage>>), Pdf(<<Page(None, <<>>)>>),
          Pdf(<<Page(Str(EntryA), <<>>), BadPage>>),
          Pdf(<<BadPage, Page(Str(EntryA), <<>>)>>),
          Pdf(<<Page(Str(EntryA), <<>>), Page(Str(EntryB), <<>>)>>),
          Pdf(<<Page(Str(EntryA), <<>>), Page(None, <<>>), Page(Str(EntryB), <<>>)>>),
          Pdf(<<Page(Str(EntryA), <<>>), Page(Str(EntryB), <<>>), BadPage>>)}

MaxCells == 11

NameCells == {None, Str(<<>>), Str(<<"A","B">>), Str(<<"A","\n","B">>), Str(<<"x"," ","K","D","N",".","7">>)}

DobCells == {None, Str(<<"9",".","1","2",".","1","9","6","1">>), Str(<<"1","9","6","1","\n","1","9","6","2">>)}

\* a row of n cells: the marker in cell number mark (none if 0), the name cell
\* at index 2 and the date of birth cell at index 5 if the row is that long
KdnRow(n, mark, name, dob) ==
    [i \in 1..n |-> IF i = mark THEN Str(<<"K","D","N",".","1">>)
                    ELSE IF i = 3 THEN name
                    ELSE IF i = 6 THEN dob
                    ELSE IF i = 8 THEN Str(<<"A","l","\n","i","a","s">>)
                    ELSE IF i = 11 THEN Str(<<"I","D","\n","1">>)
                    ELSE Str(<<"x">>)]

KdnRowSet ==
    {KdnRow(n, mark, name, dob) :
        n \in 0..MaxCells, mark \in 0..3, name \in NameCells, dob \in DobCells}

RowA == KdnRow(6, 2, Str(<<"A","B">>), Str(<<"1","9","6","1">>))

RowB == KdnRow(3, 1, Str(<<"C","D">>), None)

RowC == KdnRow(4, 0, Str(<<"E","F">>), None)

\* the letters of the marker, but in no cell together
RowD == <<Str(<<"K">>), Str(<<"D","N">>), Str(<<"K","D","\n","N">>), None, Str(<<"'","K","\"","D">>)>>

\* documents for parse_kdn_pdf
KdnPdfs ==
    {Pdf(<<Page(None, << <<row>> >>)>>) : row \in KdnRowSet}
    \cup {Unreadable, Pdf(<<>>), Pdf(<<BadPage>>), Pdf(<<Page(None, <<>>)>>),
          Pdf(<<Page(None, << <<RowD>> >>)>>),
          Pdf(<<Page(None, << <<RowA, RowC>>, <<RowB>> >>), BadPage>>),
          Pdf(<<BadPage, Page(None, << <<RowA>> >>)>>),
          Pdf(<<Page(None, << <<RowA>> >>), Page(None, << <<RowC, RowB>> >>)>>),
          Pdf(<<Page(None, << <<RowA>> >>), BadPage, Page(None, << <<RowB>> >>)>>),
          Pdf(<<Page(None, << <<RowC>> >>), Page(None, << <<RowB>> >>), BadPage>>)}

ParseInit ==
    /\ files = [slot \in SlotSet |-> NoFile]
    /\ search_query = <<>>
    /\ session_state = FirstSession
    /\ df_master = get_sample_data
    /\ matches = <<>>
    /\ view = FirstView
    /\ \/ parser = "un" /\ document \in UnPdfs
       \/ parser = "kdn" /\ document \in KdnPdfs
    /\ trace = <<>>
    /\ frame = DataFrame(<<>>)
    /\ choice_list = <<>>
    /\ scorer = <<>>
    /\ ranked = <<>>
    /\ pc = "call"

ParseUn ==
    /\ pc = "call"
    /\ parser = "un"
    /\ trace' = UnTrace(document, ListName("1267"))
    /\ frame' = parse_un_style_pdf(document, ListName("1267"))
    /\ pc' = "return"
    /\ UNCHANGED <<document, parser, appVars, rankVars>>

ParseKdn ==
    /\ pc = "call"
    /\ parser = "kdn"
    /\ trace' = KdnTrace(document)
    /\ frame' = parse_kdn_pdf(document)
    /\ pc' = "return"
    /\ UNCHANGED <<document, parser, appVars, rankVars>>

ParseNext == ParseUn \/ ParseKdn

\* one call of an extractor on one document
SpecParse == ParseInit /\ [][ParseNext]_vars

\* ------------------------------------------------------------------------
\* process.extract, called on one list of choices
\* ------------------------------------------------------------------------

MaxChoices == 11

MaxHead == 6

RankKeys == {<<"a">>, <<"b">>, <<"c">>}

\* the choice lists: up to MaxHead records of any keys, and behind them a run
\* of records that all carry one key
RankHeads == UNION {[1..h -> RankKeys] : h \in 0..MaxHead}

RankLists ==
    {l \in {head \o [i \in 1..n |-> <<"c">>] : head \in RankHeads, n \in 0..MaxChoices} :
        Len(l) <= MaxChoices}

RankInit ==
    /\ files = [slot \in SlotSet |-> NoFile]
    /\ search_query = <<>>
    /\ session_state = FirstSession
    /\ df_master = get_sample_data
    /\ matches = <<>>
    /\ view = FirstView
    /\ document = Unreadable
    /\ parser = "none"
    /\ trace = <<>>
    /\ frame = DataFrame(<<>>)
    /\ choice_list \in RankLists
    /\ scorer \in [RankKeys -> ScoreSet]
    /\ ranked = <<>>
    /\ pc = "call"

Rank ==
    /\ pc = "call"
    /\ ranked' = extract(choice_list, scorer, Limit)
    /\ pc' = "return"
    /\ UNCHANGED <<choice_list, scorer, appVars, parseVars>>

RankNext == Rank

\* one call of process.extract
SpecRank == RankInit /\ [][RankNext]_vars
\* ------------------------------------------------------------------------
\* The claims
\* ------------------------------------------------------------------------

\* the positions of a sequence of pairs whose score is at least n
AtLeast(ms, n) == {k \in 1..Len(ms) : ms[k][2] >= n}

\* the pair m is one of the pairs ms
Among(m, ms) == \E k \in 1..Len(ms) : ms[k] = m

\* C1: after a run that screened, a returned candidate is one of the high-risk
\* matches if and only if its score is at least 80, the outcome is MATCH (the
\* red panel) exactly when some returned candidate is high-risk, and otherwise
\* it is NO_MATCH (the safe panel) with no match and no match record kept.
C1_ThresholdDecides ==
    view.screened =>
        LET hrm == session_state.high_risk_matches
        IN  /\ \A k \in 1..Len(matches) :
                  Among(matches[k], hrm) <=> matches[k][2] >= 80
            /\ \A j \in 1..Len(hrm) : Among(hrm[j], matches)
            /\ view.panel = "red" <=> AtLeast(matches, 80) # {}
            /\ view.panel = "red" => session_state.search_results # NoResults
            /\ view.panel # "red" =>
                  /\ view.panel = "safe"
                  /\ hrm = <<>>
                  /\ session_state.search_results = NoResults

\* a run that screened returned a candidate scoring exactly 80, which is
\* high-risk, next to one scoring 79, which is not
C1_Witness ==
    /\ view.screened
    /\ view.panel = "red"
    /\ \E k, l \in 1..Len(matches) :
          /\ matches[k][2] = 80
          /\ Among(matches[k], session_state.high_risk_matches)
          /\ matches[l][2] = 79
          /\ ~Among(matches[l], session_state.high_risk_matches)

\* C2: whatever was uploaded, a click on the screen button with a query that
\* is not empty ends in the MATCH or the NO_MATCH panel, never in a fault.
C2_ScreeningCompletes ==
    (view.clicked /\ search_query # <<>>) =>
        (~view.fault /\ view.panel \in {"red", "safe"})

\* C4: a click on the screen button with an empty query is rejected with the
\* warning: the screening engine is not called and the store is the store as
\* it was loaded, with no record and no column added, removed or altered.
C4_EmptyQueryRejected ==
    (view.clicked /\ search_query = <<>>) =>
        /\ view.warning
        /\ ~view.fault
        /\ ~view.screened
        /\ matches = <<>>
        /\ df_master = LoadMaster(files)
        /\ "Search_Vector" \notin df_master.columns

\* the screen button was clicked with an empty query over a store of
\* uploaded records
C4_Witness ==
    /\ view.clicked
    /\ search_query = <<>>
    /\ view.warning
    /\ \E slot \in SlotSet : files[slot].present
    /\ df_master.rows # <<>>

\* the search key of a row of the store, from its name and aliases
KeyOf(row) == row.Name \o <<" ">> \o row.Aliases

\* the positions of the store rows whose search key is key
Sharing(df, key) == {i \in 1..Len(df.rows) : KeyOf(df.rows[i]) = key}

\* C6: after a run that ends in MATCH, each high-risk match is resolved to
\* the first record, in store order, that carries its search key, also when
\* several distinct records carry that key.
C6_FirstRecordWins ==
    (view.screened /\ view.panel = "red") =>
        LET hrm == session_state.high_risk_matches
            res == session_state.search_results
        IN  /\ Len(res.index) = Len(hrm)
            /\ Len(res.rows) = Len(hrm)
            /\ \A k \in 1..Len(hrm) :
                  LET same == Sharing(df_master, hrm[k][1])
                  IN  /\ same # {}
                      /\ \A i \in same :
                            (\A j \in same : i <= j) =>
                                /\ res.index[k] = i - 1
                                /\ \A c \in Columns : res.rows[k][c] = df_master.rows[i][c]

\* two distinct records of the store carry the search key of a high-risk match
C6_Witness ==
    /\ view.screened
    /\ view.panel = "red"
    /\ \E k \in 1..Len(session_state.high_risk_matches) :
          \E i, j \in Sharing(df_master, session_state.high_risk_matches[k][1]) :
              /\ i < j
              /\ df_master.rows[i].Source # df_master.rows[j].Source

\* C10: after a run that ends in MATCH, the match records are pairwise
\* distinct store records, and every store record whose search key scored at
\* least 80 among the returned candidates is one of them.
C10_EveryMatchedRecordOnce ==
    (view.screened /\ view.panel = "red") =>
        LET res == session_state.search_results
        IN  /\ Len(res.index) = Len(session_state.high_risk_matches)
            /\ \A a, b \in 1..Len(res.index) : a # b => res.index[a] # res.index[b]
            /\ \A i \in 1..Len(df_master.rows) :
                  (\E k \in AtLeast(matches, 80) : matches[k][1] = KeyOf(df_master.rows[i]))
                      => \E a \in 1..Len(res.index) : res.index[a] = i - 1

\* the rank of choice number i of the extract call: one more than the number
\* of choices that go before it, by the higher score and, the scores being
\* equal, by the earlier place in the list
C5_Rank(i) ==
    1 + Cardinality({j \in 1..Len(choice_list) :
            \/ scorer[choice_list[j]] > scorer[choice_list[i]]
            \/ scorer[choice_list[j]] = scorer[choice_list[i]] /\ j < i})

C3_Raises(d) == ~d.opens \/ \E i \in 1..Len(d.pages) : d.pages[i].fails

\* the iterations of a trace that appended a dict
Kept(steps) == {k \in 1..Len(steps) : steps[k].out # <<>>}

\* C3: when an extractor call raises, it returns no record, however many it
\* had extracted before.
C3_ErrorGivesEmpty ==
    (pc = "return" /\ C3_Raises(document)) => frame.rows = <<>>

\* s, from s[i] on, is made of ordinal markers, "na" fillers and white space only
RECURSIVE C7_OnlyMarkers(_, _)
C7_OnlyMarkers(s, i) ==
    IF i > Len(s) THEN TRUE
    ELSE LET d == RunLen(s, Digits, i)
         IN  IF d > 0 THEN i + d <= Len(s) /\ s[i + d] = ":" /\ C7_OnlyMarkers(s, i + d + 1)
             ELSE IF StartsAt(s, <<"n","a">>, i) THEN C7_OnlyMarkers(s, i + 2)
             ELSE s[i] \in Whitespace /\ C7_OnlyMarkers(s, i + 1)

\* C7: every record an extractor returns has a source and a name that are not
\* empty; the narrative extractor names a record "Unknown Name" when it finds
\* no name: the label is absent, or what follows it is ordinal markers and
\* "na" fillers only.
C7_NameNeverEmpty ==
    pc = "return" =>
        /\ \A k \in 1..Len(frame.rows) :
              frame.rows[k].Source # <<>> /\ frame.rows[k].Name # <<>>
        /\ parser = "un" =>
              \A k \in Kept(trace) :
                  (\/ trace[k].name_match.isNone
                   \/ C7_OnlyMarkers(trace[k].name_match.str, 1))
                      => trace[k].out[1].Name = <<"U","n","k","n","o","w","n"," ","N","a","m","e">>

\* the fragments the claim keeps: trimmed of white space and semicolons, and
\* then neither empty, nor a single character, nor "na" in any case
RECURSIVE C8_Kept(_, _)
C8_Kept(fragments, i) ==
    IF i > Len(fragments) THEN <<>>
    ELSE LET t == Strip(StripChars(fragments[i], {" ", ";"}))
         IN  (IF Len(t) > 1 /\ Lower(t) # <<"n","a">> THEN <<t>> ELSE <<>>)
             \o C8_Kept(fragments, i + 1)

\* C8: the aliases of an entry are the fragments of its alias block, split on
\* a lower-case letter and a closing parenthesis, that after trimming are not
\* empty, not a single character and not "na"; so no alias is empty or "na".
C8_AliasesAreTrimmedFragments ==
    (pc = "return" /\ parser = "un") =>
        \A k \in Kept(trace) :
            ~trace[k].alias_section.isNone =>
                LET block == Replace(trace[k].alias_section.str, <<"\n">>, <<" ">>)
                    aliases == trace[k].aliases
                IN  /\ aliases = C8_Kept(SplitEnum(block, 1, <<>>), 1)
                    /\ \A a \in 1..Len(aliases) :
                          aliases[a] # <<>> /\ Lower(aliases[a]) # <<"n","a">>

\* the marker stands in a cell of the row
C9_HasMarker(row) ==
    \E i \in 1..Len(row) : ~row[i].isNone /\ Contains(row[i].str, <<"K","D","N">>)

\* C9 as stated: a row yields a record if and only if it holds the marker;
\* the name is then the cell at index 2 if the row has more than 2 cells and
\* "N/A" otherwise, the date of birth the cell at index 5 if present and
\* empty otherwise.
C9_NameIsCellTwoOrNA ==
    (pc = "return" /\ parser = "kdn") =>
        \A k \in 1..Len(trace) :
            LET row == trace[k].row
            IN  /\ trace[k].out # <<>> <=> C9_HasMarker(row)
                /\ trace[k].out # <<>> =>
                      /\ trace[k].out[1].Name =
                            IF Len(row) > 2 THEN row[3].str ELSE <<"N","/","A">>
                      /\ trace[k].out[1].DOB =
                            IF Len(row) > 5 THEN row[6].str ELSE <<>>

\* C9 as amended: a row yields a record if and only if it holds the marker;
\* the name is then "Unknown" if the row has at most 2 cells, "N/A" if the
\* cell at index 2 is missing or empty, and else that cell with its line
\* breaks turned into spaces; the date of birth is the cell at index 5 with
\* its line breaks turned into " | ", and empty if that cell is absent,
\* missing or empty.
C9_RowFields ==
    (pc = "return" /\ parser = "kdn") =>
        \A k \in 1..Len(trace) :
            LET row == trace[k].row
            IN  /\ trace[k].out # <<>> <=> C9_HasMarker(row)
                /\ trace[k].out # <<>> =>
                      /\ trace[k].out[1].Name =
                            IF Len(row) <= 2 THEN <<"U","n","k","n","o","w","n">>
                            ELSE IF row[3].isNone \/ row[3].str = <<>> THEN <<"N","/","A">>
                            ELSE Replace(row[3].str, <<"\n">>, <<" ">>)
                      /\ trace[k].out[1].DOB =
                            IF Len(row) <= 5 THEN <<>>
                            ELSE IF row[6].isNone THEN <<>>
                            ELSE Replace(row[6].str, <<"\n">>, <<" ","|"," ">>)

\* a row of at most 2 cells that holds the marker yielded a record
C9_Witness ==
    /\ pc = "return"
    /\ parser = "kdn"
    /\ \E k \in 1..Len(trace) :
          /\ Len(trace[k].row) <= 2
          /\ trace[k].out # <<>>
          /\ trace[k].out[1].Name = <<"U","n","k","n","o","w","n">>

\* C11: whenever a run shows the NO MATCH panel, the search term the panel and
\* the certificate state is the query that was screened: the text input of
\* this run if this run screened, and else the term the panel stated before,
\* whatever the user did to the text input or to another widget since.
C11_TermIsScreenedQuery ==
    [][(view'.panel = "safe" /\ (view'.screened \/ view.panel = "safe"))
          => view'.term = IF view'.screened THEN search_query' ELSE view.term]_vars
====
